---- MODULE Spec2Model ----
(***************************************************************************)
(* Model of src/main.py: the /generate-soul-blueprint request handler, its *)
(* two pure helpers (calculate_life_path, basic_hd_logic), the astrology   *)
(* client, the PDF renderer and the e-mail notifier.                       *)
(*                                                                         *)
(* Python strings on which the code works character by character are       *)
(* sequences of one-character strings; the token "^2" stands for the       *)
(* single character U+00B2 (superscript two), which str.isdigit() accepts  *)
(* and int() rejects.                                                      *)
(***************************************************************************)
EXTENDS Integers, Sequences, FiniteSets, TLC

VARIABLES
    env,            \* os.environ: the set of secrets that are set
    input,          \* input[r]: the SoulInput of request r
    pc,             \* pc[r]: the line of generate_blueprint r is about to run
    frame,          \* frame[r]: the local variables r has assigned so far
    response,       \* response[r]: what r returned to its caller
    files,          \* the reports/ directory: a set of [path, content]
    log,            \* log[r]: the calls r has made, in order
    renders,        \* the requests that wrote their PDF, in the order they did
    posted,         \* Authorization headers sent to the astrology provider
    logins,         \* (user, password) pairs handed to smtp.login
    outbox,         \* messages handed to smtp.send_message
    fn, arg, res    \* a single call of one pure function: name, argument, result

vars == <<env, input, pc, frame, response, files, log, renders, posted, logins, outbox,
          fn, arg, res>>

handlerVars == <<env, input, pc, frame, response, files, log, renders, posted, logins,
                 outbox>>
pureVars == <<fn, arg, res>>

---------------------------------------------------------------------------
(* Bounds *)

MaxDateLen == 4
MaxTimeLen == 3

---------------------------------------------------------------------------
(* Python values *)

None == "<None>"
Return(v) == [value |-> v]
Raise(e) == [raises |-> e]
Raised(x) == "raises" \in DOMAIN x

DecimalDigits == {"0", "1", "2", "3", "4", "5", "6", "7", "8", "9"}
Superscript2 == "^2"

\* str.isdigit() of one character
isdigit(c) == c \in DecimalDigits \cup {Superscript2}

\* int(c) of one character for which it is defined
DigitValue(c) ==
    CASE c = "0" -> 0 [] c = "1" -> 1 [] c = "2" -> 2 [] c = "3" -> 3
      [] c = "4" -> 4 [] c = "5" -> 5 [] c = "6" -> 6 [] c = "7" -> 7
      [] c = "8" -> 8 [] c = "9" -> 9

RECURSIVE sum(_)
sum(digits) ==
    IF digits = <<>> THEN 0 ELSE Head(digits) + sum(Tail(digits))

\* [int(d) for d in str(n)], n >= 0
RECURSIVE DigitsOfStr(_)
DigitsOfStr(n) ==
    IF n < 10 THEN <<n>> ELSE Append(DigitsOfStr(n \div 10), n % 10)

MasterNumbers == {11, 22, 33}

\* the reduction with an if in place of the while: one pass only
ReduceOnce(digits) ==
    IF sum(digits) > 9 /\ sum(digits) \notin MasterNumbers
    THEN sum(DigitsOfStr(sum(digits)))
    ELSE sum(digits)

\* the while loop of calculate_life_path
RECURSIVE ReduceLoop(_)
ReduceLoop(digits) ==
    IF sum(digits) > 9 /\ sum(digits) \notin MasterNumbers
    THEN ReduceLoop(DigitsOfStr(sum(digits)))
    ELSE sum(digits)

calculate_life_path(birth_date) ==
    LET kept == SelectSeq(birth_date, isdigit)
    IN  IF \E i \in 1..Len(kept) : kept[i] \notin DecimalDigits
        THEN Raise("ValueError")
        ELSE Return(ReduceLoop([i \in 1..Len(kept) |-> DigitValue(kept[i])]))

\* birth_time.split(":")[0]: what precedes the first ':' (all of it if none)
split0(s) ==
    LET colons == {i \in 1..Len(s) : s[i] = ":"}
        first == IF colons = {} THEN Len(s) + 1
                 ELSE CHOOSE i \in colons : \A j \in colons : i <= j
    IN  SubSeq(s, 1, first - 1)

\* str.strip() as int() applies it to its argument
RECURSIVE lstrip(_)
lstrip(s) == IF s # <<>> /\ Head(s) = " " THEN lstrip(Tail(s)) ELSE s

RECURSIVE rstrip(_)
rstrip(s) ==
    IF s # <<>> /\ s[Len(s)] = " " THEN rstrip(SubSeq(s, 1, Len(s) - 1)) ELSE s

RECURSIVE DecimalValue(_)
DecimalValue(ds) ==
    IF ds = <<>> THEN 0
    ELSE 10 * DecimalValue(SubSeq(ds, 1, Len(ds) - 1)) + DigitValue(ds[Len(ds)])

\* int(s) for a string over the decimal digits, '+', '-', ' ' and other
\* characters int() rejects: optional surrounding blanks, an optional sign,
\* then one or more decimal digits
int(s) ==
    LET t == rstrip(lstrip(s))
        signed == t # <<>> /\ Head(t) \in {"+", "-"}
        body == IF signed THEN Tail(t) ELSE t
    IN  IF body = <<>> \/ \E i \in 1..Len(body) : body[i] \notin DecimalDigits
        THEN Raise("ValueError")
        ELSE Return(IF signed /\ Head(t) = "-"
                    THEN 0 - DecimalValue(body) ELSE DecimalValue(body))

HdPair(t, a) == [type |-> t, authority |-> a]

\* the if/elif chain of basic_hd_logic with the first bound exclusive
HourBucketExclusive(hour) ==
    IF 6 < hour /\ hour < 12 THEN HdPair("Generator", "Sacral")
    ELSE IF 12 <= hour /\ hour < 18 THEN HdPair("Projector", "Emotional")
    ELSE IF 18 <= hour /\ hour < 22 THEN HdPair("Manifestor", "Splenic")
    ELSE HdPair("Reflector", "Lunar")

\* the if/elif chain of basic_hd_logic
HourBucket(hour) ==
    IF 6 <= hour /\ hour < 12 THEN HdPair("Generator", "Sacral")
    ELSE IF 12 <= hour /\ hour < 18 THEN HdPair("Projector", "Emotional")
    ELSE IF 18 <= hour /\ hour < 22 THEN HdPair("Manifestor", "Splenic")
    ELSE HdPair("Reflector", "Lunar")

\* basic_hd_logic with an unparseable hour read as midnight
basic_hd_logic_default(birth_time) ==
    LET parsed == int(split0(birth_time))
    IN  Return(HourBucket(IF Raised(parsed) THEN 0 ELSE parsed.value))

basic_hd_logic(birth_time) ==
    LET parsed == int(split0(birth_time))
    IN  IF Raised(parsed) THEN parsed ELSE Return(HourBucket(parsed.value))

\* name.replace(' ', '_')
replace(name) == [i \in 1..Len(name) |-> IF name[i] = " " THEN "_" ELSE name[i]]

\* output_path of render_pdf_from_template
output_path(data) == <<"reports/">> \o replace(data.name) \o <<"_soul_blueprint.pdf">>

---------------------------------------------------------------------------
(* The inputs and the outside world *)

\* two requests in flight, which the server's thread pool runs concurrently
Requests == {"r1", "r2"}

Secrets == {"ASTRO_API_KEY", "EMAIL_ADDRESS", "EMAIL_PASSWORD"}

\* os.getenv(name)
getenv(name) == IF name \in env THEN name ELSE None

Names == {<<"A", " ", "B">>, <<"C">>}
BirthDates == {<<"1", "9", "8", "9", "-", "1", "1", "-", "2", "9">>,
               <<"1", "9", "8", "9", "-", "1", "1", "-", "2", Superscript2>>}
BirthTimes == {<<"0", "9", ":", "3", "0">>, <<"1", "9", ":", "4", "5">>,
               <<"x", ":", "0", "0">>}
BirthPlaces == {"Paris"}
Emails == {None, "", "e@x"}

SoulInput ==
    [name : Names, birth_date : BirthDates, birth_time : BirthTimes,
     birth_place : BirthPlaces, email : Emails]

\* what requests.post can come back with: a response (status code and JSON
\* body, a mapping from planet to sign) or a transport exception
FullBody == ("sun" :> "Leo") @@ ("moon" :> "Aries") @@ ("ascendant" :> "Virgo")
NoMoonBody == ("sun" :> "Leo") @@ ("ascendant" :> "Virgo")
StatusCodes == {200, 503}
ProviderReplies ==
    {[status_code |-> 200, json |-> FullBody],
     [status_code |-> 200, json |-> NoMoonBody],
     [status_code |-> 503, json |-> NoMoonBody]}

\* data.get(planet, {}).get("sign", "Unknown")
SignOf(data, planet) == IF planet \in DOMAIN data THEN data[planet] ELSE "Unknown"

\* the test "x is not None" in place of bool(x)
IsNotNone(x) == x # None

\* bool(x) of an Optional[str]
Truthy(x) == x # None /\ x # ""

Assign(r, name, value) == [frame EXCEPT ![r] = (name :> value) @@ frame[r]]
Has(r, name) == name \in DOMAIN frame[r]
Called(r, what) == [log EXCEPT ![r] = Append(log[r], what)]

\* the except clause of generate_blueprint: HTTPException(500, detail=str(e))
Failed(r, detail) ==
    /\ pc' = [pc EXCEPT ![r] = "Failed"]
    /\ response' = [response EXCEPT ![r] = [status_code |-> 500, detail |-> detail]]

---------------------------------------------------------------------------
(* generate_blueprint, one action per call it makes *)

\* lines 95 and 99 run together, ahead of the astrology call
LifePathThenClassify(r) ==
    /\ pc[r] = "Received"
    /\ LET lp == calculate_life_path(input[r].birth_date)
           hd == basic_hd_logic(input[r].birth_time)
       IN  /\ log' = [log EXCEPT ![r] = <<"calculate_life_path", "basic_hd_logic">>]
           /\ IF Raised(lp) \/ Raised(hd)
              THEN Failed(r, "ValueError") /\ UNCHANGED frame
              ELSE /\ frame' = [frame EXCEPT ![r] =
                          ("life_path" :> lp.value) @@ ("human_design" :> hd.value)]
                   /\ pc' = [pc EXCEPT ![r] = "get_astrology_data"]
                   /\ UNCHANGED response
    /\ UNCHANGED <<env, input, files, renders, posted, logins, outbox, pureVars>>

\* line 95
LifePath(r) ==
    /\ pc[r] = "Received"
    /\ LET lp == calculate_life_path(input[r].birth_date)
       IN  /\ log' = Called(r, "calculate_life_path")
           /\ IF Raised(lp)
              THEN Failed(r, lp.raises) /\ UNCHANGED frame
              ELSE /\ frame' = Assign(r, "life_path", lp.value)
                   /\ pc' = [pc EXCEPT ![r] = "get_astrology_data"]
                   /\ UNCHANGED response
    /\ UNCHANGED <<env, input, files, renders, posted, logins, outbox, pureVars>>

\* the status test with every code from 200 up taken for success
StatusOkFrom200(reply) == reply.status_code >= 200

\* line 32: response.status_code == 200
StatusOk(reply) == reply.status_code = 200

\* lines 96-98: get_astrology_data
GetAstrologyData(r) ==
    /\ pc[r] = "get_astrology_data"
    /\ log' = Called(r, "requests.post")
    /\ posted' = posted \cup {<<"Bearer", getenv("ASTRO_API_KEY")>>}
    /\ \/ Failed(r, "ConnectionError") /\ UNCHANGED frame
       \/ \E reply \in ProviderReplies :
             IF StatusOk(reply)
             THEN /\ frame' = [frame EXCEPT ![r] =
                        ("status_code" :> reply.status_code) @@
                        ("astrology" :>
                            [sun_sign |-> SignOf(reply.json, "sun"),
                             moon_sign |-> SignOf(reply.json, "moon"),
                             rising_sign |-> SignOf(reply.json, "ascendant")]) @@
                        frame[r]]
                  /\ pc' = [pc EXCEPT ![r] = "basic_hd_logic"]
                  /\ UNCHANGED response
             ELSE /\ frame' = Assign(r, "status_code", reply.status_code)
                  /\ Failed(r, "Failed to fetch astrology data.")
    /\ UNCHANGED <<env, input, files, renders, logins, outbox, pureVars>>

\* line 99
BasicHdLogic(r) ==
    /\ pc[r] = "basic_hd_logic"
    /\ LET hd == basic_hd_logic(input[r].birth_time)
       IN  /\ log' = Called(r, "basic_hd_logic")
           /\ IF Raised(hd)
              THEN Failed(r, hd.raises) /\ UNCHANGED frame
              ELSE /\ frame' = Assign(r, "human_design", hd.value)
                   /\ pc' = [pc EXCEPT ![r] = "render_pdf_from_template"]
                   /\ UNCHANGED response
    /\ UNCHANGED <<env, input, files, renders, posted, logins, outbox, pureVars>>

\* the dict built at lines 101-109
RenderData(r) ==
    [name |-> input[r].name,
     sun_sign |-> frame[r].astrology.sun_sign,
     moon_sign |-> frame[r].astrology.moon_sign,
     rising |-> frame[r].astrology.rising_sign,
     hd_type |-> frame[r].human_design.type,
     authority |-> frame[r].human_design.authority,
     life_path |-> frame[r].life_path]

\* a write that keeps a file already at the path (exclusive creation)
WriteFileIfAbsent(path, content) ==
    IF \E f \in files : f.path = path THEN files
    ELSE files \cup {[path |-> path, content |-> content]}

\* pdfkit.from_string(html_content, output_path): the file at the path now
\* holds the rendering of data, whatever it held before
WriteFile(path, content) ==
    {f \in files : f.path # path} \cup {[path |-> path, content |-> content]}

\* lines 101-109: render_pdf_from_template; the template may be missing or
\* reports/ unwritable
RenderPdf(r) ==
    /\ pc[r] = "render_pdf_from_template"
    /\ log' = Called(r, "render_pdf_from_template")
    /\ \/ Failed(r, "RenderError") /\ UNCHANGED <<frame, files, renders>>
       \/ /\ files' = WriteFile(output_path(RenderData(r)), RenderData(r))
          /\ renders' = Append(renders, r)
          /\ frame' = Assign(r, "pdf_path", output_path(RenderData(r)))
          /\ pc' = [pc EXCEPT ![r] = "if email"]
          /\ UNCHANGED response
    /\ UNCHANGED <<env, input, posted, logins, outbox, pureVars>>

\* the file at a path, which some request has written
ReadFile(path) == (CHOOSE f \in files : f.path = path).content

\* lines 111-116 and 50-62: the email is truthy; the message is built and the
\* attachment read from disk
OpenAttachment(r) ==
    /\ pc[r] = "if email"
    /\ Truthy(input[r].email)
    /\ log' = Called(r, "open")
    /\ frame' = Assign(r, "file_data", ReadFile(frame[r].pdf_path))
    /\ pc' = [pc EXCEPT ![r] = "smtp"]
    /\ UNCHANGED <<env, input, response, files, renders, posted, logins, outbox, pureVars>>

Message(r) ==
    [From |-> getenv("EMAIL_ADDRESS"), To |-> input[r].email,
     Subject |-> "Your Soul Blueprint Report",
     attachment |-> frame[r].file_data, filename |-> Tail(frame[r].pdf_path)]

\* the SMTP session with the PDF removed when the login is refused
SmtpSendCleanup(r) ==
    /\ pc[r] = "smtp"
    /\ logins' = logins \cup {<<getenv("EMAIL_ADDRESS"), getenv("EMAIL_PASSWORD")>>}
    /\ log' = [log EXCEPT ![r] = log[r] \o <<"SMTP_SSL", "smtp.login">>]
    /\ Failed(r, "SMTPAuthenticationError")
    /\ files' = {f \in files : f.path # frame[r].pdf_path}
    /\ UNCHANGED <<env, input, frame, renders, posted, outbox, pureVars>>

\* lines 64-66: the SMTP session; the connection, the login or the send may
\* fail, and the server accepts no login without both credentials
SmtpSend(r) ==
    /\ pc[r] = "smtp"
    /\ \/ /\ log' = Called(r, "SMTP_SSL")
          /\ Failed(r, "SMTPConnectError")
          /\ UNCHANGED <<logins, outbox>>
       \/ /\ logins' = logins \cup {<<getenv("EMAIL_ADDRESS"), getenv("EMAIL_PASSWORD")>>}
          /\ \/ /\ log' = [log EXCEPT ![r] = log[r] \o <<"SMTP_SSL", "smtp.login">>]
                /\ Failed(r, "SMTPAuthenticationError")
                /\ UNCHANGED outbox
             \/ /\ {"EMAIL_ADDRESS", "EMAIL_PASSWORD"} \subseteq env
                /\ log' = [log EXCEPT ![r] =
                       log[r] \o <<"SMTP_SSL", "smtp.login", "smtp.send_message">>]
                /\ \/ Failed(r, "SMTPRecipientsRefused") /\ UNCHANGED outbox
                   \/ /\ outbox' = outbox \cup {Message(r)}
                      /\ pc' = [pc EXCEPT ![r] = "return"]
                      /\ UNCHANGED response
    /\ UNCHANGED <<env, input, frame, files, renders, posted, pureVars>>

\* line 119, reached past the send or with a falsy email at line 111
ReturnOk(r) ==
    /\ \/ pc[r] = "return"
       \/ pc[r] = "if email" /\ ~Truthy(input[r].email)
    /\ pc' = [pc EXCEPT ![r] = "Completed"]
    /\ response' = [response EXCEPT ![r] =
           [status_code |-> 200, message |-> "Blueprint generated and sent",
            pdf_path |-> frame[r].pdf_path]]
    /\ UNCHANGED <<env, input, frame, files, log, renders, posted, logins, outbox, pureVars>>

NoResponse == [status_code |-> 0]
NoFrame == [x \in {} |-> 0]

Pending == [pending |-> TRUE]
PureIdle == fn = "" /\ arg = <<>> /\ res = Pending

Init ==
    /\ env \in SUBSET Secrets
    /\ input \in [Requests -> SoulInput]
    /\ pc = [r \in Requests |-> "Received"]
    /\ frame = [r \in Requests |-> NoFrame]
    /\ response = [r \in Requests |-> NoResponse]
    /\ files = {}
    /\ log = [r \in Requests |-> <<>>]
    /\ renders = <<>>
    /\ posted = {}
    /\ logins = {}
    /\ outbox = {}
    /\ PureIdle

Next ==
    \E r \in Requests :
        \/ LifePath(r)
        \/ GetAstrologyData(r)
        \/ BasicHdLogic(r)
        \/ RenderPdf(r)
        \/ OpenAttachment(r)
        \/ SmtpSend(r)
        \/ ReturnOk(r)

Spec == Init /\ [][Next]_vars

---------------------------------------------------------------------------
(* The two pure functions on every string up to a length *)

StringsUpTo(alphabet, n) == UNION {[1..k -> alphabet] : k \in 0..n}

DateAlphabet == DecimalDigits \cup {"-", Superscript2}
TimeAlphabet == DecimalDigits \cup {":", "x", "-", " "}

HandlerIdle ==
    /\ env = {}
    /\ input = [r \in Requests |-> CHOOSE i \in SoulInput : TRUE]
    /\ pc = [r \in Requests |-> "Idle"]
    /\ frame = [r \in Requests |-> NoFrame]
    /\ response = [r \in Requests |-> NoResponse]
    /\ files = {}
    /\ log = [r \in Requests |-> <<>>]
    /\ renders = <<>>
    /\ posted = {}
    /\ logins = {}
    /\ outbox = {}

InitPure ==
    /\ HandlerIdle
    /\ \/ fn = "calculate_life_path" /\ arg \in StringsUpTo(DateAlphabet, MaxDateLen)
       \/ fn = "basic_hd_logic" /\ arg \in StringsUpTo(TimeAlphabet, MaxTimeLen)
    /\ res = Pending

CallLifePath ==
    /\ fn = "calculate_life_path"
    /\ res = Pending
    /\ res' = calculate_life_path(arg)
    /\ UNCHANGED <<fn, arg, handlerVars>>

CallHdLogic ==
    /\ fn = "basic_hd_logic"
    /\ res = Pending
    /\ res' = basic_hd_logic(arg)
    /\ UNCHANGED <<fn, arg, handlerVars>>

NextPure == CallLifePath \/ CallHdLogic

SpecPure == InitPure /\ [][NextPure]_vars

---------------------------------------------------------------------------
(* Properties *)

Computed == res # Pending
InLog(r, what) == \E i \in 1..Len(log[r]) : log[r][i] = what
IsPrefix(s, t) == Len(s) <= Len(t) /\ SubSeq(t, 1, Len(s)) = s
LifePathNumbers == (1..9) \cup {11, 22, 33}
ArgDigitSum ==
    LET kept == SelectSeq(arg, LAMBDA c : c \in DecimalDigits)
    IN  sum([i \in 1..Len(kept) |-> DigitValue(kept[i])])

C2_Table(h) ==
    IF h \in 6..11 THEN <<"Generator", "Sacral">>
    ELSE IF h \in 12..17 THEN <<"Projector", "Emotional">>
    ELSE IF h \in 18..21 THEN <<"Manifestor", "Splenic">>
    ELSE <<"Reflector", "Lunar">>

\* C2: a birth_time whose leading segment parses to an hour h in 0..23 is
\* classified by the half-open, left-inclusive table: [6,12) Generator/Sacral,
\* [12,18) Projector/Emotional, [18,22) Manifestor/Splenic, otherwise
\* Reflector/Lunar.
C2_Buckets ==
    (fn = "basic_hd_logic" /\ Computed)
    => LET hour == int(split0(arg))
       IN  (~Raised(hour) /\ hour.value \in 0..23)
           => /\ ~Raised(res)
              /\ <<res.value.type, res.value.authority>> = C2_Table(hour.value)

\* the boundary hour 22, followed by a ':', was classified
C2_Witness ==
    /\ fn = "basic_hd_logic"
    /\ Computed
    /\ arg = <<"2", "2", ":">>
    /\ res = Return(HdPair("Reflector", "Lunar"))

\* C3 as stated: the astrology call is never issued before both the life path
\* and the human-design classification have been computed.
C3_ClassifiedBeforeCall ==
    \A r \in Requests :
        InLog(r, "requests.post") => Has(r, "life_path") /\ Has(r, "human_design")

CallOrder ==
    <<"calculate_life_path", "requests.post", "basic_hd_logic",
      "render_pdf_from_template", "open", "SMTP_SSL", "smtp.login",
      "smtp.send_message">>

\* C3 amended: a request makes its calls in the order life path, astrology
\* call, human-design classification, render, then the optional notification;
\* the astrology call follows the life path only, and the PDF is rendered only
\* after life path, astrology and classification are all there.
C3_CallOrder ==
    \A r \in Requests :
        /\ IsPrefix(log[r], CallOrder)
        /\ InLog(r, "requests.post") => Has(r, "life_path")
        /\ Has(r, "human_design") => Has(r, "astrology")
        /\ InLog(r, "render_pdf_from_template") =>
              Has(r, "life_path") /\ Has(r, "astrology") /\ Has(r, "human_design")
        /\ pc[r] = "Completed" => Has(r, "pdf_path")

\* a request went through every stage, the notification included
C3_Witness ==
    \E r \in Requests : pc[r] = "Completed" /\ log[r] = CallOrder

\* C4: a request whose astrology reply was not a 200 is Failed with a 500 and
\* has neither rendered a PDF nor opened an SMTP session.
C4_Non200Fails ==
    \A r \in Requests :
        (Has(r, "status_code") /\ frame[r].status_code # 200)
        => /\ pc[r] = "Failed"
           /\ response[r] =
                 [status_code |-> 500, detail |-> "Failed to fetch astrology data."]
           /\ log[r] = <<"calculate_life_path", "requests.post">>
           /\ ~Has(r, "pdf_path")
           /\ \A i \in 1..Len(renders) : renders[i] # r

\* one request got a 503 and failed while the other rendered its PDF
C4_Witness ==
    \E r, q \in Requests :
        /\ Has(r, "status_code") /\ frame[r].status_code = 503
        /\ pc[r] = "Failed"
        /\ Has(q, "pdf_path")
        /\ files # {}

\* C5: a birth_time whose leading segment is not an integer never gets a
\* human-design type, a PDF or an e-mail, and once the classifier has run the
\* request is Failed with a 500 carrying the parse error.
C5_ParseErrorFails ==
    \A r \in Requests :
        Raised(int(split0(input[r].birth_time)))
        => /\ ~Has(r, "human_design")
           /\ ~Has(r, "pdf_path")
           /\ ~InLog(r, "render_pdf_from_template")
           /\ ~InLog(r, "SMTP_SSL")
           /\ pc[r] # "Completed"
           /\ InLog(r, "basic_hd_logic") =>
                 /\ pc[r] = "Failed"
                 /\ response[r] = [status_code |-> 500, detail |-> "ValueError"]

\* a request with the birth_time "x:00" failed in the classifier
C5_Witness ==
    \E r \in Requests :
        /\ input[r].birth_time = <<"x", ":", "0", "0">>
        /\ log[r] = <<"calculate_life_path", "requests.post", "basic_hd_logic">>
        /\ pc[r] = "Failed"

Ended(r) == pc[r] \in {"Completed", "Failed"}

\* C6: the notifier runs only for a request with a non-empty email whose PDF
\* was rendered, and runs for every such request; with email None or "" there
\* is no SMTP call and the rendered request ends with the success response
\* carrying its PDF path.
C6_NotifierIffEmail ==
    \A r \in Requests :
        LET noEmail == input[r].email \in {None, ""}
        IN  /\ InLog(r, "open") => ~noEmail /\ Has(r, "pdf_path")
            /\ InLog(r, "SMTP_SSL") => InLog(r, "open")
            /\ (~noEmail /\ Has(r, "pdf_path") /\ Ended(r)) => InLog(r, "SMTP_SSL")
            /\ (noEmail /\ Has(r, "pdf_path")) => pc[r] \in {"if email", "Completed"}
            /\ (noEmail /\ Has(r, "pdf_path") /\ Ended(r)) =>
                  response[r] =
                      [status_code |-> 200, message |-> "Blueprint generated and sent",
                       pdf_path |-> frame[r].pdf_path]

\* a request with the empty email completed without the notifier while the
\* other, with an address, was e-mailed
C6_Witness ==
    \E r, q \in Requests :
        /\ input[r].email = "" /\ pc[r] = "Completed"
        /\ input[q].email = "e@x" /\ pc[q] = "Completed" /\ outbox # {}

Rendered(r) == \E i \in 1..Len(renders) : renders[i] = r
RenderIndex(r) == CHOOSE i \in 1..Len(renders) : renders[i] = r
ReportPath(name) ==
    <<"reports/">> \o [i \in 1..Len(name) |-> IF name[i] = " " THEN "_" ELSE name[i]]
                   \o <<"_soul_blueprint.pdf">>

\* C7: two requests with the same name write to the same path
\* reports/<name, spaces as '_'>_soul_blueprint.pdf; once both have rendered
\* there is one file at that path and it holds what the later render wrote.
C7_SamePathLastWins ==
    \A r, q \in Requests :
        (r # q /\ input[r].name = input[q].name /\ Rendered(r) /\ Rendered(q)
         /\ RenderIndex(r) < RenderIndex(q))
        => /\ frame[r].pdf_path = ReportPath(input[r].name)
           /\ frame[q].pdf_path = frame[r].pdf_path
           /\ files = {[path |-> frame[q].pdf_path, content |-> RenderData(q)]}

\* two requests named "A B" rendered different reports to the one path
C7_Witness ==
    \E r, q \in Requests :
        /\ r # q /\ input[r].name = <<"A", " ", "B">> /\ input[q].name = input[r].name
        /\ Rendered(r) /\ Rendered(q) /\ RenderIndex(r) < RenderIndex(q)
        /\ RenderData(r) # RenderData(q)
        /\ Cardinality(files) = 1

ErrorsOf(call) ==
    CASE call = "calculate_life_path" -> {"ValueError"}
      [] call = "requests.post" -> {"ConnectionError", "Failed to fetch astrology data."}
      [] call = "basic_hd_logic" -> {"ValueError"}
      [] call = "render_pdf_from_template" -> {"RenderError"}
      [] call = "SMTP_SSL" -> {"SMTPConnectError"}
      [] call = "smtp.login" -> {"SMTPAuthenticationError"}
      [] call = "smtp.send_message" -> {"SMTPRecipientsRefused"}
      [] OTHER -> {}

C8_FailedState ==
    \A r \in Requests :
        /\ pc[r] = "Failed" =>
              /\ log[r] # <<>>
              /\ DOMAIN response[r] = {"status_code", "detail"}
              /\ response[r].status_code = 500
              /\ response[r].detail \in ErrorsOf(log[r][Len(log[r])])
        /\ Has(r, "pdf_path") => \E f \in files : f.path = frame[r].pdf_path

C8_FailedStep ==
    \A r \in Requests :
        /\ pc[r] = "Failed" =>
              /\ pc'[r] = "Failed"
              /\ log'[r] = log[r]
              /\ frame'[r] = frame[r]
              /\ response'[r] = response[r]
        /\ (pc[r] # "Failed" /\ pc'[r] = "Failed" /\ Has(r, "pdf_path")) => files' = files
        /\ \A f \in files : \E g \in files' : g.path = f.path

\* C8: a failed request holds a 500 whose detail is the error of the last call
\* it made and no pdf_path, and takes no further step; the step that fails
\* after the render leaves every file as it was, and no step removes a file.
C8_FailureIsFinal == [][C8_FailedState' /\ C8_FailedStep]_vars

\* a request whose SMTP login was refused is Failed and its PDF is on disk
C8_Witness ==
    \E r \in Requests :
        /\ pc[r] = "Failed"
        /\ response[r].detail = "SMTPAuthenticationError"
        /\ [path |-> frame[r].pdf_path, content |-> RenderData(r)] \in files

\* C9: no astrology request and no SMTP login is made with a missing secret.
C9_NoCallWithoutSecret ==
    /\ \A h \in posted : h[2] # None
    /\ \A l \in logins : l[1] # None /\ l[2] # None

\* C10: the bytes a request attaches are those of the PDF it rendered itself.
C10_OwnAttachment ==
    \A r \in Requests : Has(r, "file_data") => frame[r].file_data = RenderData(r)

====
